---- MODULE Spec2Model ----
(***************************************************************************)
(* A model of tools/render_crash_zone_assets.py: the legend resolver       *)
(* (hex_to_rgb, to_rgba, normalise_legend), the grid rasterizer            *)
(* (render_asset_grid), the exporter (export_asset) and the driver (main). *)
(*                                                                         *)
(* Conventions.                                                            *)
(*   - A Python str is a sequence of one-character strings.                *)
(*   - An Optional value is a sequence of length <= 1: None is <<>> and    *)
(*     a present value v is <<v>>.                                         *)
(*   - A call that may raise yields [exc |-> name, val |-> value], exc     *)
(*     being "none" when the call returns.                                 *)
(*   - A float opacity is a count of 1/OpacityUnit.                        *)
(*   - A grid symbol is the code point of its character, so that the       *)
(*     order used by sorted() is the order of the integers.                *)
(***************************************************************************)
EXTENDS Integers, Sequences, FiniteSets, TLC

VARIABLES
    hex_colour, opacity, rgba,      \* one legend entry and its resolution
    asset, canvas, scaled,          \* one asset, its rasterization, one resize
    catalog,                        \* ASSETS
    sizes, include_base,            \* args.sizes, args.include_base
    dir0,                           \* whether output_dir exists before the run
    pc, idx, base_image, todo,      \* per run: position in main / export_asset
    dirExists, files,               \* per run: the file system under output_dir
    log, err                        \* per run: the effects so far, the exception

legendVars == <<hex_colour, opacity, rgba>>

rasterVars == <<asset, canvas, scaled>>

inputVars == <<catalog, sizes, include_base, dir0>>

runVars == <<pc, idx, base_image, todo, dirExists, files, log, err>>

vars == <<hex_colour, opacity, rgba, asset, canvas, scaled,
          catalog, sizes, include_base, dir0,
          pc, idx, base_image, todo, dirExists, files, log, err>>

-----------------------------------------------------------------------------
(* Bounds of the explored inputs.                                          *)

MaxHashes == 2

MaxBody == 7

BodyChars == {"1", "F", "G", "+"}

Opacities == {-500, 0, 1, 300, 1000, 1500}

MaxRows == 2

MaxRowLen == 3

MaxCells == 4

MaxSize == 3

GridSymbols == {65, 66}

Entry(colour, op) == [hex_colour |-> colour, opacity |-> op]

Clear == Entry(<<>>, 0)

Navy == Entry(<<<<"#", "1", "F", "2", "A", "4", "4">>>>, 1000)

Amber == Entry(<<<<"F", "3", "8", "b", "2", "a">>>>, 300)

\* a positive opacity whose alpha rounds to 0: (141,79,211,0)
Faint == Entry(<<<<"#", "8", "D", "4", "F", "D", "3">>>>, 1)

\* black with an alpha that rounds to 0: equal to the sentinel
Ghost == Entry(<<<<"0", "0", "0", "0", "0", "0">>>>, 1)

\* a malformed colour that is never parsed
Unused == Entry(<<<<"#", "1", "2">>>>, 0)

Malformed == Entry(<<<<"#", "1", "2">>>>, 1000)

\* The legends explored: keys 46 '.', 48 '0', 65 'A', 66 'B'.
Legends ==
    { (46 :> Clear) @@ (65 :> Navy) @@ (66 :> Amber),
      (46 :> Unused) @@ (65 :> Faint) @@ (66 :> Ghost),
      (46 :> Clear) @@ (48 :> Navy),
      (65 :> Malformed) @@ (66 :> Amber),
      (46 :> Malformed) @@ (65 :> Navy) }

Rows == UNION {[1..n -> GridSymbols] : n \in 0..MaxRowLen}

MaxAssets == 2

MaxSizes == 2

SizeValues == {-1, 0, 1, 2}

\* The assets a catalog is drawn from: two that rasterize, one with a
\* malformed legend colour, one with an undefined grid symbol.
AssetPool ==
    { [slug |-> "x", grid |-> <<<<65>>>>, legend |-> (65 :> Navy)],
      [slug |-> "y", grid |-> <<<<65, 66>>, <<66>>>>,
       legend |-> (46 :> Clear) @@ (65 :> Navy) @@ (66 :> Amber)],
      [slug |-> "c", grid |-> <<<<65>>>>, legend |-> (65 :> Malformed)],
      [slug |-> "s", grid |-> <<<<65, 66>>>>, legend |-> (65 :> Navy)] }

\* Catalogs: 1..MaxAssets assets with distinct slugs, in any order.
Catalogs ==
    UNION {{c \in [1..n -> AssetPool] : \A i \in 1..n : \A j \in 1..n : c[i] = c[j] => i = j}
              : n \in 1..MaxAssets}

\* argparse nargs="+": at least one size.
SizeLists == UNION {[1..n -> SizeValues] : n \in 1..MaxSizes}

\* The same inputs are run twice: with --dry-run, then without.
Runs == {"dry", "live"}

-----------------------------------------------------------------------------
(* Values.                                                                 *)

None == <<>>

Some(v) == <<v>>

Return(v) == [exc |-> "none", val |-> v]

Raise(e) == [exc |-> e, val |-> <<>>]

OpacityUnit == 1000

TRANSPARENT_PIXEL == <<0, 0, 0, 0>>

Max(a, b) == IF a >= b THEN a ELSE b

Min(a, b) == IF a <= b THEN a ELSE b

-----------------------------------------------------------------------------
(* Legend resolver.                                                        *)

\* The digits int(text, 16) accepts, with their values.
HexDigits ==
    ("0" :> 0) @@ ("1" :> 1) @@ ("2" :> 2) @@ ("3" :> 3) @@ ("4" :> 4) @@
    ("5" :> 5) @@ ("6" :> 6) @@ ("7" :> 7) @@ ("8" :> 8) @@ ("9" :> 9) @@
    ("a" :> 10) @@ ("b" :> 11) @@ ("c" :> 12) @@ ("d" :> 13) @@ ("e" :> 14) @@ ("f" :> 15) @@
    ("A" :> 10) @@ ("B" :> 11) @@ ("C" :> 12) @@ ("D" :> 13) @@ ("E" :> 14) @@ ("F" :> 15)

IsHexDigit(c) == c \in DOMAIN HexDigits

HexDigitValue(c) == HexDigits[c]

IsSpace(c) == c \in {" ", "\t", "\n", "\r"}

\* int(text, 16) on the two-character slices hex_to_rgb hands it: two hex
\* digits; or a sign and one digit; or one digit with white space before or
\* after it.  Everything else raises ValueError.
int16(text) ==
    LET a == text[1]
        b == text[2]
    IN  IF IsHexDigit(a) /\ IsHexDigit(b)
          THEN Return(16 * HexDigitValue(a) + HexDigitValue(b))
        ELSE IF a = "+" /\ IsHexDigit(b) THEN Return(HexDigitValue(b))
        ELSE IF a = "-" /\ IsHexDigit(b) THEN Return(0 - HexDigitValue(b))
        ELSE IF IsSpace(a) /\ IsHexDigit(b) THEN Return(HexDigitValue(b))
        ELSE IF IsHexDigit(a) /\ IsSpace(b) THEN Return(HexDigitValue(a))
        ELSE Raise("ValueError")

RECURSIVE lstrip(_, _)
\* str.lstrip(ch): every leading ch is removed.
lstrip(text, ch) ==
    IF Len(text) > 0 /\ Head(text) = ch THEN lstrip(Tail(text), ch) ELSE text

hex_to_rgb(hex_text) ==
    LET colour == lstrip(hex_text, "#")
    IN  IF Len(colour) # 6
          THEN Raise("ValueError")
          ELSE LET part == [k \in 1..3 |-> int16(SubSeq(colour, 2 * k - 1, 2 * k))]
               IN  IF \E k \in 1..3 : part[k].exc # "none"
                     THEN Raise("ValueError")
                     ELSE Return(<<part[1].val, part[2].val, part[3].val>>)

\* to_rgba with the opacity test written "< 0.0".
to_rgba_strict_opacity(colour, op) ==
    IF colour = None \/ op < 0
      THEN Return(TRANSPARENT_PIXEL)
      ELSE LET rgb == hex_to_rgb(colour[1])
               alpha == (2 * op * 255 + OpacityUnit) \div (2 * OpacityUnit)
           IN  IF rgb.exc # "none"
                 THEN rgb
                 ELSE Return(rgb.val \o <<Max(0, Min(alpha, 255))>>)

\* to_rgba with the "+ 0.5" dropped: the alpha is truncated.
to_rgba_truncating(colour, op) ==
    IF colour = None \/ op <= 0
      THEN Return(TRANSPARENT_PIXEL)
      ELSE LET rgb == hex_to_rgb(colour[1])
               alpha == (op * 255) \div OpacityUnit
           IN  IF rgb.exc # "none"
                 THEN rgb
                 ELSE Return(rgb.val \o <<Max(0, Min(alpha, 255))>>)

to_rgba(colour, op) ==
    IF colour = None \/ op <= 0
      THEN Return(TRANSPARENT_PIXEL)
      ELSE LET rgb == hex_to_rgb(colour[1])
               \* int(opacity * 255 + 0.5), the argument being positive
               alpha == (2 * op * 255 + OpacityUnit) \div (2 * OpacityUnit)
           IN  IF rgb.exc # "none"
                 THEN rgb
                 ELSE Return(rgb.val \o <<Max(0, Min(alpha, 255))>>)

normalise_legend(legend) ==
    LET resolved == [symbol \in DOMAIN legend |->
                        to_rgba(legend[symbol].hex_colour, legend[symbol].opacity)]
    IN  IF \E symbol \in DOMAIN legend : resolved[symbol].exc # "none"
          THEN Raise("ValueError")
          ELSE Return([symbol \in DOMAIN legend |-> resolved[symbol].val])

-----------------------------------------------------------------------------
(* Grid rasterizer.                                                        *)

RECURSIVE sorted(_)
\* sorted(S): the elements of a set of integers in ascending order.
sorted(S) ==
    IF S = {}
      THEN <<>>
      ELSE LET least == CHOOSE x \in S : \A y \in S : x <= y
           IN  <<least>> \o sorted(S \ {least})

RECURSIVE row_cells(_, _, _)
row_cells(grid, row_index, column_index) ==
    IF column_index >= Len(grid[row_index + 1])
      THEN <<>>
      ELSE <<<<row_index, column_index>>>> \o row_cells(grid, row_index, column_index + 1)

RECURSIVE cells_from(_, _)
cells_from(grid, row_index) ==
    IF row_index >= Len(grid)
      THEN <<>>
      ELSE row_cells(grid, row_index, 0) \o cells_from(grid, row_index + 1)

RECURSIVE cells_from_last(_, _)
cells_from_last(grid, row_index) ==
    IF row_index < 0
      THEN <<>>
      ELSE row_cells(grid, row_index, 0) \o cells_from_last(grid, row_index - 1)

\* The scan with the rows visited last to first.
cells_bottom_up(grid) == cells_from_last(grid, Len(grid) - 1)

\* The <<row_index, column_index>> pairs in the order the two nested
\* enumerate() loops visit them.
cells(grid) == cells_from(grid, 0)

RECURSIVE max_of(_)
max_of(S) == LET x == CHOOSE y \in S : TRUE
             IN  IF S = {x} THEN x ELSE Max(x, max_of(S \ {x}))

new_image(side) ==
    [width |-> side, height |-> side,
     px    |-> [xy \in (0..(side - 1)) \X (0..(side - 1)) |-> TRANSPARENT_PIXEL]]

\* Block centering: no per-row offset.
horizontal_offset_zero(base_dimension, row) == 0

horizontal_offset(base_dimension, row) == (base_dimension - Len(row)) \div 2

key_error(symbol, slug, legend) ==
    [exc |-> "KeyError",
     val |-> [symbol |-> symbol, slug |-> slug, known |-> sorted(DOMAIN legend)]]

RECURSIVE paint(_, _, _, _, _)
\* The body of the two loops, over the cells still to visit.
paint(rest, a, legend, vertical_offset, image) ==
    IF rest = <<>>
      THEN Return(image)
      ELSE LET row_index    == rest[1][1]
               column_index == rest[1][2]
               row          == a.grid[row_index + 1]
               symbol       == row[column_index + 1]
               xy == <<horizontal_offset(image.width, row) + column_index,
                       vertical_offset + row_index>>
           IN  IF symbol \notin DOMAIN legend
                 THEN key_error(symbol, a.slug, legend)
               ELSE IF legend[symbol] = TRANSPARENT_PIXEL
                 THEN paint(Tail(rest), a, legend, vertical_offset, image)
               ELSE IF xy \notin DOMAIN image.px
                 THEN Raise("IndexError")
               ELSE paint(Tail(rest), a, legend, vertical_offset,
                          [image EXCEPT !.px[xy] = legend[symbol]])

render_asset_grid(a) ==
    LET legend == normalise_legend(a.legend)
    IN  IF legend.exc # "none"
          THEN legend
        ELSE IF Len(a.grid) = 0
          THEN Raise("TypeError")     \* max() of the single int len(grid)
        ELSE LET base_dimension ==
                     max_of({Len(a.grid)} \cup {Len(a.grid[i]) : i \in 1..Len(a.grid)})
                 vertical_offset == (base_dimension - Len(a.grid)) \div 2
             IN  paint(cells(a.grid), a, legend.val, vertical_offset,
                       new_image(base_dimension))

-----------------------------------------------------------------------------
(* Scaling.                                                                *)

\* Image.resize((width, height), resample=NEAREST): each output pixel copies
\* the source pixel under its centre.
resize_nearest(image, width, height) ==
    [width |-> width, height |-> height,
     px    |-> [xy \in (0..(width - 1)) \X (0..(height - 1)) |->
                  image.px[<<((2 * xy[1] + 1) * image.width) \div (2 * width),
                             ((2 * xy[2] + 1) * image.height) \div (2 * height)>>]]]

\* A resize that averages each sampled pixel with its right-hand neighbour.
scaled_image_blend(image, size) ==
    LET near == resize_nearest(image, size, size)
        right(xy) == near.px[<<IF xy[1] + 1 < size THEN xy[1] + 1 ELSE xy[1], xy[2]>>]
    IN  [near EXCEPT !.px = [xy \in DOMAIN near.px |->
            [k \in 1..4 |-> (near.px[xy][k] + right(xy)[k]) \div 2]]]

scaled_image(image, size) == resize_nearest(image, size, size)

-----------------------------------------------------------------------------
(* The resolver applied to one legend entry.                               *)

IdleLegend == hex_colour = None /\ opacity = 0 /\ rgba = None

IdleRaster == asset = None /\ canvas = None /\ scaled = None

IdleMain ==
    /\ catalog = <<>>
    /\ sizes = <<>>
    /\ include_base = FALSE
    /\ dir0 = FALSE
    /\ pc = <<>>
    /\ idx = <<>>
    /\ base_image = <<>>
    /\ todo = <<>>
    /\ dirExists = <<>>
    /\ files = <<>>
    /\ log = <<>>
    /\ err = <<>>

InitLegend ==
    /\ hex_colour \in {None, Some(<<>>)}
    /\ opacity = 0
    /\ rgba = None
    /\ IdleRaster
    /\ IdleMain

Hashes == Len(hex_colour[1]) - Len(lstrip(hex_colour[1], "#"))

TypeHash ==
    /\ rgba = None
    /\ hex_colour # None
    /\ Hashes = Len(hex_colour[1])
    /\ Hashes < MaxHashes
    /\ hex_colour' = Some(Append(hex_colour[1], "#"))
    /\ UNCHANGED <<opacity, rgba, rasterVars, inputVars, runVars>>

TypeChar ==
    /\ rgba = None
    /\ hex_colour # None
    /\ Len(hex_colour[1]) - Hashes < MaxBody
    /\ \E c \in BodyChars : hex_colour' = Some(Append(hex_colour[1], c))
    /\ UNCHANGED <<opacity, rgba, rasterVars, inputVars, runVars>>

Resolve ==
    /\ rgba = None
    /\ \E op \in Opacities :
         /\ opacity' = op
         /\ rgba' = Some(to_rgba(hex_colour, op))
    /\ UNCHANGED <<hex_colour, rasterVars, inputVars, runVars>>

NextLegend == TypeHash \/ TypeChar \/ Resolve

SpecLegend == InitLegend /\ [][NextLegend]_vars

-----------------------------------------------------------------------------
(* The rasterizer and the scaler applied to one asset.                     *)

InitRaster ==
    /\ IdleLegend
    /\ IdleMain
    /\ asset \in {[slug |-> "x", grid |-> <<>>, legend |-> legend] : legend \in Legends}
    /\ canvas = None
    /\ scaled = None

RECURSIVE CellCount(_)
CellCount(grid) == IF grid = <<>> THEN 0 ELSE Len(Head(grid)) + CellCount(Tail(grid))

AddRow ==
    /\ canvas = None
    /\ Len(asset.grid) < MaxRows
    /\ \E row \in Rows :
         /\ CellCount(asset.grid) + Len(row) <= MaxCells
         /\ asset' = [asset EXCEPT !.grid = Append(@, row)]
    /\ UNCHANGED <<canvas, scaled, legendVars, inputVars, runVars>>

Render ==
    /\ canvas = None
    /\ canvas' = Some(render_asset_grid(asset))
    /\ UNCHANGED <<asset, scaled, legendVars, inputVars, runVars>>

Scale ==
    /\ canvas # None
    /\ canvas[1].exc = "none"
    /\ scaled = None
    /\ \E size \in 1..MaxSize :
         scaled' = Some([size |-> size, image |-> scaled_image(canvas[1].val, size)])
    /\ UNCHANGED <<asset, canvas, legendVars, inputVars, runVars>>

NextRaster == AddRow \/ Render \/ Scale

SpecRaster == InitRaster /\ [][NextRaster]_vars

-----------------------------------------------------------------------------
(* Properties of the legend resolver.                                      *)

Resolved == rgba # None

\* RRGGBB or #RRGGBB: one optional leading '#', then exactly six hex digits.
WellFormed(text) ==
    LET body == IF Len(text) > 0 /\ Head(text) = "#" THEN Tail(text) ELSE text
    IN  Len(body) = 6 /\ \A i \in 1..6 : IsHexDigit(body[i])

HexByte(text, k) ==
    LET body == IF Head(text) = "#" THEN Tail(text) ELSE text
    IN  16 * HexDigitValue(body[2 * k - 1]) + HexDigitValue(body[2 * k])

\* The integer nearest to op * 255 / OpacityUnit, a tie going upwards.
IsRounded(n, op) ==
    /\ 2 * OpacityUnit * n - OpacityUnit <= 2 * 255 * op
    /\ 2 * 255 * op < 2 * OpacityUnit * n + OpacityUnit

\* C2: a legend entry whose colour is None or whose opacity is <= 0 resolves
\* to the transparent sentinel (0,0,0,0) and raises nothing, whatever the
\* other field is (a malformed colour string included).
C2_TransparentEntry ==
    (Resolved /\ (hex_colour = None \/ opacity <= 0))
        => rgba[1] = Return(TRANSPARENT_PIXEL)

\* A malformed colour with opacity 0 has been resolved to the sentinel.
C2_Witness ==
    /\ Resolved
    /\ hex_colour # None
    /\ ~WellFormed(hex_colour[1])
    /\ Len(hex_colour[1]) > 0
    /\ opacity = 0
    /\ rgba[1] = Return(TRANSPARENT_PIXEL)

\* C3: with a present colour and opacity > 0, resolving raises exactly when
\* the colour is not RRGGBB or #RRGGBB (wrong length, a non-hex character,
\* more than one leading '#').
C3_MalformedColourRaises ==
    (Resolved /\ hex_colour # None /\ opacity > 0)
        => (rgba[1].exc = "ValueError" <=> ~WellFormed(hex_colour[1]))

\* C6: a well-formed colour with a positive opacity resolves to the three
\* parsed bytes followed by opacity * 255 rounded to the nearest integer
\* (a tie going upwards) and clamped to [0,255].
C6_ResolvedValue ==
    (Resolved /\ hex_colour # None /\ opacity > 0 /\ WellFormed(hex_colour[1]))
        => /\ rgba[1].exc = "none"
           /\ Len(rgba[1].val) = 4
           /\ \A k \in 1..3 : rgba[1].val[k] = HexByte(hex_colour[1], k)
           /\ \E n \in 0..(((255 * opacity) \div OpacityUnit) + 1) :
                /\ IsRounded(n, opacity)
                /\ rgba[1].val[4] = Max(0, Min(n, 255))
           /\ (opacity = OpacityUnit => rgba[1].val[4] = 255)

\* A positive opacity whose alpha rounds to 0 keeps the colour bytes: the
\* result is (r,g,b,0) and is not the sentinel.
C6_Witness ==
    /\ Resolved
    /\ hex_colour = Some(<<"#", "1", "F", "F", "1", "1", "1">>)
    /\ opacity = 1
    /\ rgba[1] = Return(<<31, 241, 17, 0>>)

-----------------------------------------------------------------------------
(* main and export_asset, one step per effect.                             *)

dry_run(r) == r = "dry"

base_path(slug) == [slug |-> slug, stem |-> "base", size |-> 0]

size_path(slug, size) == [slug |-> slug, stem |-> "size", size |-> size]

Event(op, path) == [op |-> op, path |-> path]

NoPath == [slug |-> "", stem |-> "", size |-> 0]

\* Path.mkdir(parents=True) without exist_ok.
mkdir_no_exist_ok(exists, permitted) ==
    IF exists THEN Raise("FileExistsError")
    ELSE IF permitted THEN Return(TRUE)
    ELSE Raise("OSError")

\* output_dir.mkdir(parents=True, exist_ok=True): an existing directory is
\* left alone; a missing one is created, or the creation fails.
mkdir(exists, permitted) ==
    IF exists THEN Return(TRUE)
    ELSE IF permitted THEN Return(TRUE)
    ELSE Raise("OSError")

\* "for size in sizes if size > 0": no set, no sorted().
export_sizes_as_given(size_list) == SelectSeq(size_list, LAMBDA size : size > 0)

\* The sizes the loop of export_asset visits, in its order.
export_sizes(size_list) ==
    sorted({size \in {size_list[i] : i \in 1..Len(size_list)} : size > 0})

InitMain ==
    /\ IdleLegend
    /\ IdleRaster
    /\ catalog \in Catalogs
    /\ sizes \in SizeLists
    /\ include_base \in BOOLEAN
    /\ dir0 \in BOOLEAN
    /\ pc = [r \in Runs |-> "main"]
    /\ idx = [r \in Runs |-> 1]
    /\ base_image = [r \in Runs |-> None]
    /\ todo = [r \in Runs |-> <<>>]
    /\ dirExists = [r \in Runs |-> dir0]
    /\ files = [r \in Runs |-> <<>>]
    /\ log = [r \in Runs |-> <<>>]
    /\ err = [r \in Runs |-> "none"]

\* One run at a time: the live run starts when the dry run has ended.
Turn(r) == r = "live" => pc["dry"] \in {"done", "aborted"}

\* main, lines 213-215.
MakeOutputDir(r) ==
    /\ Turn(r)
    /\ pc[r] = "main"
    /\ IF dry_run(r)
         THEN /\ pc' = [pc EXCEPT ![r] = "render"]
              /\ UNCHANGED <<dirExists, log, err>>
         ELSE \E permitted \in BOOLEAN :
                LET made == mkdir(dirExists[r], permitted)
                IN  /\ log' = [log EXCEPT ![r] = Append(@, Event("mkdir", NoPath))]
                    /\ IF made.exc = "none"
                         THEN /\ dirExists' = [dirExists EXCEPT ![r] = TRUE]
                              /\ pc' = [pc EXCEPT ![r] = "render"]
                              /\ UNCHANGED err
                         ELSE /\ pc' = [pc EXCEPT ![r] = "aborted"]
                              /\ err' = [err EXCEPT ![r] = made.exc]
                              /\ UNCHANGED dirExists
    /\ UNCHANGED <<idx, base_image, todo, files, legendVars, rasterVars, inputVars>>

\* render errors caught and the asset skipped.
RenderAsset_swallowing(r) ==
    /\ Turn(r)
    /\ pc[r] = "render"
    /\ LET result == render_asset_grid(catalog[idx[r]])
       IN  /\ log' = [log EXCEPT ![r] = Append(@, Event("render", NoPath))]
           /\ IF result.exc = "none"
                THEN /\ base_image' = [base_image EXCEPT ![r] = Some(result.val)]
                     /\ pc' = [pc EXCEPT ![r] = "base"]
                ELSE /\ pc' = [pc EXCEPT ![r] = "sizes"]
                     /\ UNCHANGED base_image
    /\ UNCHANGED <<idx, todo, dirExists, files, err, legendVars, rasterVars, inputVars>>

\* export_asset, line 187.
RenderAsset(r) ==
    /\ Turn(r)
    /\ pc[r] = "render"
    /\ LET result == render_asset_grid(catalog[idx[r]])
       IN  /\ log' = [log EXCEPT ![r] = Append(@, Event("render", NoPath))]
           /\ IF result.exc = "none"
                THEN /\ base_image' = [base_image EXCEPT ![r] = Some(result.val)]
                     /\ pc' = [pc EXCEPT ![r] = "base"]
                     /\ UNCHANGED err
                ELSE /\ pc' = [pc EXCEPT ![r] = "aborted"]
                     /\ err' = [err EXCEPT ![r] = result.exc]
                     /\ UNCHANGED base_image
    /\ UNCHANGED <<idx, todo, dirExists, files, legendVars, rasterVars, inputVars>>

\* The dry_run test missing: every path is saved.
Emit_always_saving(r, path, image) ==
    IF dirExists[r]
      THEN /\ files' = [files EXCEPT ![r] = (path :> image) @@ @]
           /\ log' = [log EXCEPT ![r] = @ \o <<Event("save", path), Event("print", path)>>]
           /\ UNCHANGED err
      ELSE /\ log' = [log EXCEPT ![r] = Append(@, Event("save", path))]
           /\ err' = [err EXCEPT ![r] = "FileNotFoundError"]
           /\ UNCHANGED files

\* The two branches on dry_run, lines 192-196 and 201-206: print the path,
\* or save the image (which needs the directory) and print the path.
Emit(r, path, image) ==
    IF dry_run(r)
      THEN /\ log' = [log EXCEPT ![r] = Append(@, Event("print", path))]
           /\ UNCHANGED <<files, err>>
    ELSE IF dirExists[r]
      THEN /\ files' = [files EXCEPT ![r] = (path :> image) @@ @]
           /\ log' = [log EXCEPT ![r] = @ \o <<Event("save", path), Event("print", path)>>]
           /\ UNCHANGED err
    ELSE /\ log' = [log EXCEPT ![r] = Append(@, Event("save", path))]
         /\ err' = [err EXCEPT ![r] = "FileNotFoundError"]
         /\ UNCHANGED files

Saved(r) == dry_run(r) \/ dirExists[r]

\* export_asset, lines 189-196, and the evaluation of the loop's iterable.
ExportBase(r) ==
    /\ Turn(r)
    /\ pc[r] = "base"
    /\ IF include_base
         THEN /\ Emit(r, base_path(catalog[idx[r]].slug), base_image[r][1])
              /\ pc' = [pc EXCEPT ![r] = IF Saved(r) THEN "sizes" ELSE "aborted"]
         ELSE /\ pc' = [pc EXCEPT ![r] = "sizes"]
              /\ UNCHANGED <<files, log, err>>
    /\ todo' = [todo EXCEPT ![r] = export_sizes(sizes)]
    /\ UNCHANGED <<idx, base_image, dirExists, legendVars, rasterVars, inputVars>>

\* export_asset, lines 198-206: one iteration of the loop.
ExportSize(r) ==
    /\ Turn(r)
    /\ pc[r] = "sizes"
    /\ todo[r] # <<>>
    /\ LET size == Head(todo[r])
       IN  Emit(r, size_path(catalog[idx[r]].slug, size),
                IF dry_run(r) THEN None ELSE scaled_image(base_image[r][1], size))
    /\ pc' = [pc EXCEPT ![r] = IF Saved(r) THEN "sizes" ELSE "aborted"]
    /\ todo' = [todo EXCEPT ![r] = Tail(@)]
    /\ UNCHANGED <<idx, base_image, dirExists, legendVars, rasterVars, inputVars>>

\* The loop of export_asset ends; main, line 217: the next asset, or the end.
NextAsset(r) ==
    /\ Turn(r)
    /\ pc[r] = "sizes"
    /\ todo[r] = <<>>
    /\ IF idx[r] < Len(catalog)
         THEN /\ idx' = [idx EXCEPT ![r] = @ + 1]
              /\ pc' = [pc EXCEPT ![r] = "render"]
         ELSE /\ pc' = [pc EXCEPT ![r] = "done"]
              /\ UNCHANGED idx
    /\ base_image' = [base_image EXCEPT ![r] = None]
    /\ UNCHANGED <<todo, dirExists, files, log, err, legendVars, rasterVars, inputVars>>

Next ==
    \E r \in Runs :
        \/ MakeOutputDir(r)
        \/ RenderAsset(r)
        \/ ExportBase(r)
        \/ ExportSize(r)
        \/ NextAsset(r)

Spec == InitMain /\ [][Next]_vars

-----------------------------------------------------------------------------
(* Properties of the rasterizer and the scaler.                            *)

Rendered == canvas # None

HasUnknown(a) ==
    \E r \in 1..Len(a.grid) : \E c \in 1..Len(a.grid[r]) :
        a.grid[r][c] \notin DOMAIN a.legend

LegendResolves(a) ==
    \A symbol \in DOMAIN a.legend :
        to_rgba(a.legend[symbol].hex_colour, a.legend[symbol].opacity).exc = "none"

\* symbol is the first character of the grid, rows top to bottom and each
\* row left to right, that the legend does not define.
FirstUnknown(a, symbol) ==
    \E r \in 1..Len(a.grid) : \E c \in 1..Len(a.grid[r]) :
        /\ a.grid[r][c] = symbol
        /\ symbol \notin DOMAIN a.legend
        /\ \A r2 \in 1..r : \A c2 \in 1..Len(a.grid[r2]) :
              (r2 < r \/ c2 < c) => a.grid[r2][c2] \in DOMAIN a.legend

IsAscendingListOf(list, S) ==
    /\ Len(list) = Cardinality(S)
    /\ {list[i] : i \in 1..Len(list)} = S
    /\ \A i \in 1..Len(list) : \A j \in 1..Len(list) : i < j => list[i] < list[j]

NamesFirstUnknown(a, result) ==
    /\ result.exc = "KeyError"
    /\ FirstUnknown(a, result.val.symbol)
    /\ result.val.slug = a.slug
    /\ IsAscendingListOf(result.val.known, DOMAIN a.legend)

\* C4 as stated: rasterizing any grid holding a character the legend does
\* not define raises the unknown-symbol error naming the first such character
\* in row-major order, the slug and the sorted known symbols.
C4_UnknownSymbolAnyLegend ==
    (Rendered /\ HasUnknown(asset)) => NamesFirstUnknown(asset, canvas[1])

\* C4 amended: the same, for the assets whose legend entries all resolve
\* (a malformed legend colour is raised first, by normalise_legend, before
\* any grid symbol is looked up); no canvas is returned.
C4_UnknownSymbol ==
    (Rendered /\ HasUnknown(asset) /\ LegendResolves(asset))
        => NamesFirstUnknown(asset, canvas[1])

\* Two undefined characters: the error names the one scanned first, with a
\* known-symbol list of two.
C4_Witness ==
    /\ Rendered
    /\ asset.legend = (46 :> Clear) @@ (48 :> Navy)
    /\ asset.grid = <<<<66>>, <<65, 66, 65>>>>
    /\ canvas[1] = [exc |-> "KeyError",
                    val |-> [symbol |-> 66, slug |-> "x", known |-> <<46, 48>>]]

\* C7: the scaled image is exactly S x S, every pixel of it is the colour
\* of some pixel of the base canvas, and for S = N it is the base canvas.
C7_Scaling ==
    scaled # None =>
        LET image == scaled[1].image
            S     == scaled[1].size
            base  == canvas[1].val
        IN  /\ image.width = S
            /\ image.height = S
            /\ DOMAIN image.px = (0..(S - 1)) \X (0..(S - 1))
            /\ \A xy \in DOMAIN image.px : \E uv \in DOMAIN base.px :
                  image.px[xy] = base.px[uv]
            /\ (S = base.width => image = base)

\* A 2 x 2 canvas of three colours scaled up to 3 x 3.
C7_Witness ==
    /\ scaled # None
    /\ scaled[1].size = 3
    /\ canvas[1].val.width = 2
    /\ Cardinality({canvas[1].val.px[uv] : uv \in DOMAIN canvas[1].val.px}) >= 3
    /\ Cardinality({scaled[1].image.px[xy] : xy \in DOMAIN scaled[1].image.px}) >= 3

Layout(a, result) ==
    /\ result.exc = "none"
    /\ LET image == result.val
           side  == image.width
           R     == Len(a.grid)
           Target(r, c) == <<(side - Len(a.grid[r + 1])) \div 2 + c, (side - R) \div 2 + r>>
           GridCells == {rc \in (0..(R - 1)) \X (0..MaxRowLen) :
                            rc[2] < Len(a.grid[rc[1] + 1])}
           resolved == [symbol \in DOMAIN a.legend |->
                           to_rgba(a.legend[symbol].hex_colour, a.legend[symbol].opacity).val]
           Colour(r, c) == resolved[a.grid[r + 1][c + 1]]
       IN  /\ image.height = side
           /\ side >= R
           /\ \A i \in 1..R : side >= Len(a.grid[i])
           /\ side = R \/ \E i \in 1..R : side = Len(a.grid[i])
           /\ DOMAIN image.px = (0..(side - 1)) \X (0..(side - 1))
           /\ \A rc \in GridCells : Target(rc[1], rc[2]) \in DOMAIN image.px
           /\ \A xy \in DOMAIN image.px :
                 LET hits == {rc \in GridCells :
                                 /\ Target(rc[1], rc[2]) = xy
                                 /\ Colour(rc[1], rc[2]) # TRANSPARENT_PIXEL}
                 IN  IF hits = {}
                       THEN image.px[xy] = TRANSPARENT_PIXEL
                       ELSE \A rc \in hits : image.px[xy] = Colour(rc[1], rc[2])

\* C8 as stated: every grid of at least one row whose symbols are all in
\* the legend is rasterized to a square canvas of side max(R, longest row)
\* with exactly the centred, non-sentinel cells painted.
C8_LayoutAnyLegend ==
    (Rendered /\ Len(asset.grid) >= 1 /\ ~HasUnknown(asset))
        => Layout(asset, canvas[1])

\* C8 amended: the same, for the assets whose legend entries all resolve.
C8_RasterLayout ==
    (Rendered /\ Len(asset.grid) >= 1 /\ ~HasUnknown(asset) /\ LegendResolves(asset))
        => Layout(asset, canvas[1])

\* A ragged grid: the one-cell row is centred on its own in a 3 x 3 canvas.
C8_Witness ==
    /\ Rendered
    /\ asset.legend = (46 :> Clear) @@ (65 :> Navy) @@ (66 :> Amber)
    /\ asset.grid = <<<<65>>, <<66, 65, 66>>>>
    /\ canvas[1].exc = "none"
    /\ canvas[1].val.width = 3
    /\ canvas[1].val.px[<<1, 0>>] = <<31, 42, 68, 255>>
    /\ canvas[1].val.px[<<0, 0>>] = TRANSPARENT_PIXEL
    /\ canvas[1].val.px[<<0, 1>>] = <<243, 139, 42, 77>>
    /\ canvas[1].val.px[<<1, 2>>] = TRANSPARENT_PIXEL

-----------------------------------------------------------------------------
(* Properties of a run.                                                    *)

Ended(r) == pc[r] \in {"done", "aborted"}

FileSystemErrors == {"OSError", "FileExistsError", "FileNotFoundError"}

PathsOf(r, op) ==
    LET events == SelectSeq(log[r], LAMBDA e : e.op = op)
    IN  [i \in 1..Len(events) |-> events[i].path]

Range(list) == {list[i] : i \in 1..Len(list)}

Count(r, op) == Len(PathsOf(r, op))

\* C1: a dry run creates no file and no directory (it never calls mkdir or
\* save), and once both runs of the same inputs have ended, the live one on
\* a file system that let it create the directory, the set of paths the dry
\* run printed is the set of paths the live run wrote; a catalog with an
\* asset that fails to rasterize included.
C1_DryRun ==
    /\ files["dry"] = <<>>
    /\ dirExists["dry"] = dir0
    /\ Count("dry", "mkdir") = 0
    /\ Count("dry", "save") = 0
    /\ (Ended("dry") /\ Ended("live") /\ err["live"] \notin FileSystemErrors)
          => /\ Range(PathsOf("dry", "print")) = DOMAIN files["live"]
             /\ Range(PathsOf("dry", "print")) = Range(PathsOf("live", "save"))
             /\ pc["dry"] = pc["live"]
             /\ err["dry"] = err["live"]

\* Both runs aborted at a second asset that fails to rasterize, the dry run
\* having printed the paths the live run wrote for the first.
C1_Witness ==
    /\ pc["dry"] = "aborted"
    /\ pc["live"] = "aborted"
    /\ err["live"] = "KeyError"
    /\ idx["live"] = 2
    /\ ~dir0
    /\ Cardinality(DOMAIN files["live"]) = 3
    /\ Range(PathsOf("dry", "print")) = DOMAIN files["live"]
    /\ files["dry"] = <<>>
    /\ ~dirExists["dry"]

\* The paths a run has emitted: printed in a dry run, saved in a live one.
Emitted(r) == IF dry_run(r) THEN PathsOf(r, "print") ELSE PathsOf(r, "save")

PositiveSizes == {size \in Range(sizes) : size > 0}

\* C5: a run that ended without error has emitted, asset by asset in catalog
\* order, {slug}_base first iff include_base, then {slug}_{s} once for each
\* distinct positive s of sizes, strictly ascending.
C5_EmissionOrder ==
    \A r \in Runs : pc[r] = "done" =>
        LET emitted == Emitted(r)
            b == IF include_base THEN 1 ELSE 0
            d == Cardinality(PositiveSizes)
        IN  /\ Len(emitted) = Len(catalog) * (b + d)
            /\ PathsOf(r, "print") = emitted
            /\ \A i \in 1..Len(catalog) :
                  LET first == (i - 1) * (b + d)
                  IN  /\ include_base =>
                            emitted[first + 1] = [slug |-> catalog[i].slug, stem |-> "base", size |-> 0]
                      /\ \A j \in 1..d :
                            /\ emitted[first + b + j].slug = catalog[i].slug
                            /\ emitted[first + b + j].stem = "size"
                            /\ emitted[first + b + j].size \in PositiveSizes
                            /\ j < d => emitted[first + b + j].size < emitted[first + b + j + 1].size

\* Two assets, sizes 2 1 with the base: three paths each, in order.
C5_Witness ==
    /\ pc["live"] = "done"
    /\ include_base
    /\ sizes = <<2, 1>>
    /\ Len(catalog) = 2
    /\ catalog[1].slug = "y"
    /\ PathsOf("live", "save") =
          <<base_path("y"), size_path("y", 1), size_path("y", 2),
            base_path("x"), size_path("x", 1), size_path("x", 2)>>

\* A malformed legend colour or an undefined grid symbol.
Fails(a) == ~LegendResolves(a) \/ HasUnknown(a)

\* The first asset of the catalog whose rasterization fails: 0 if none.
FirstFailing ==
    LET failing == {k \in 1..Len(catalog) : Fails(catalog[k])}
    IN  IF failing = {} THEN 0 ELSE CHOOSE k \in failing : \A j \in failing : k <= j

RasterError(a) == IF ~LegendResolves(a) THEN "ValueError" ELSE "KeyError"

\* The outputs of an asset: path and content.
Outputs(a) ==
    LET image == render_asset_grid(a).val
    IN  (IF include_base THEN {[path |-> base_path(a.slug), image |-> image]} ELSE {})
        \cup {[path |-> size_path(a.slug, size), image |-> scaled_image(image, size)]
                 : size \in PositiveSizes}

Mentions(r, slug) ==
    \/ \E i \in 1..Len(log[r]) : log[r][i].path.slug = slug
    \/ \E path \in DOMAIN files[r] : path.slug = slug

IsWritten(r, output) ==
    /\ output.path \in DOMAIN files[r]
    /\ files[r][output.path] = output.image

\* The part of C9 that does not depend on the mode: the run never goes past
\* the first failing asset k and never ends normally; when it has aborted
\* it is at k, with the rasterizer's exception, and nothing of asset k or of
\* a later asset has been written or printed.
AbortsAt(r, k) ==
    /\ idx[r] <= k
    /\ pc[r] # "done"
    /\ \A j \in k..Len(catalog) : ~Mentions(r, catalog[j].slug)
    /\ pc[r] = "aborted" =>
          /\ idx[r] = k
          /\ err[r] = RasterError(catalog[k])

MkdirErrors == {"OSError", "FileExistsError"}

\* C10: a live run calls mkdir exactly once, as its first effect (before any
\* asset is rasterized or saved); the call raises nothing when the
\* directory already exists; every save happens with the directory present;
\* and a run whose mkdir failed has rasterized and written nothing.
C10_DirectoryFirst ==
    LET r == "live"
    IN  /\ pc[r] = "main" => log[r] = <<>>
        /\ pc[r] # "main" =>
              /\ log[r][1].op = "mkdir"
              /\ Count(r, "mkdir") = 1
        /\ dir0 => err[r] \notin MkdirErrors
        /\ Count(r, "save") > 0 => dirExists[r]
        /\ err[r] # "FileNotFoundError"
        /\ err[r] \in MkdirErrors =>
              /\ files[r] = <<>>
              /\ log[r] = <<Event("mkdir", NoPath)>>
              /\ pc[r] = "aborted"

\* A live run that found the directory present and wrote its files.
C10_Witness ==
    /\ dir0
    /\ pc["live"] = "done"
    /\ Cardinality(DOMAIN files["live"]) >= 2
    /\ log["live"][1].op = "mkdir"

====
